---- MODULE Spec2Model ----
(***************************************************************************)
(* Multi-draw indirect command buffers (src/src/index/multidraw.rs).       *)
(*                                                                         *)
(* The module models the two #[repr(C)] record structs, the two wrapper    *)
(* types DrawCommandsNoIndicesBuffer / DrawCommandsIndicesBuffer with      *)
(* their four constructors each, with_primitive_type, with_index_buffer    *)
(* and the Deref / DerefMut forwarding.  BufferView, IndexBuffer and the   *)
(* device behind the Facade are collaborators whose code lives outside     *)
(* this file; they are modelled from the specification (a heap of device   *)
(* allocations holding bytes).                                             *)
(***************************************************************************)
EXTENDS Integers, Sequences, FiniteSets

VARIABLES heap, cmd, ibuf, source, snap, last

vars == <<heap, cmd, ibuf, source, snap, last>>

(***************************************************************************)
(* Bounds of the model.                                                    *)
(***************************************************************************)
MaxElements == 2
MaxAllocs == 2

(***************************************************************************)
(* 32-bit unsigned values.  A value is kept as its two 16-bit halves so    *)
(* that the whole range 0 .. 2^32-1 is representable.                      *)
(***************************************************************************)
U32(hi, lo) == [hi |-> hi, lo |-> lo]

U32Zero == U32(0, 0)

U32Max == U32(65535, 65535)

\* The four bytes of a 32-bit value in memory order (least significant first).
BytesOfU32(v) ==
    <<v.lo % 256, v.lo \div 256, v.hi % 256, v.hi \div 256>>

\* size and alignment in bytes of the C scalar types of the fields
SizeOfTy(ty) == IF ty = "c_uint" THEN 4 ELSE 2

AlignOfTy(ty) == SizeOfTy(ty)

(***************************************************************************)
(* The record structs: field order and field types as declared.            *)
(***************************************************************************)
DrawCommandNoIndices_swapped ==
    << [name |-> "count",          ty |-> "c_uint"],
       [name |-> "first_index",    ty |-> "c_uint"],
       [name |-> "instance_count", ty |-> "c_uint"],
       [name |-> "base_instance",  ty |-> "c_uint"] >>

DrawCommandNoIndices ==
    << [name |-> "count",          ty |-> "c_uint"],
       [name |-> "instance_count", ty |-> "c_uint"],
       [name |-> "first_index",    ty |-> "c_uint"],
       [name |-> "base_instance",  ty |-> "c_uint"] >>

DrawCommandIndices_narrow ==
    << [name |-> "count",          ty |-> "c_uint"],
       [name |-> "instance_count", ty |-> "c_uint"],
       [name |-> "first_index",    ty |-> "c_uint"],
       [name |-> "base_vertex",    ty |-> "c_ushort"],
       [name |-> "base_instance",  ty |-> "c_uint"] >>

DrawCommandIndices ==
    << [name |-> "count",          ty |-> "c_uint"],
       [name |-> "instance_count", ty |-> "c_uint"],
       [name |-> "first_index",    ty |-> "c_uint"],
       [name |-> "base_vertex",    ty |-> "c_uint"],
       [name |-> "base_instance",  ty |-> "c_uint"] >>

Kinds == {"NoIndices", "Indices"}

StructOf(kind) ==
    IF kind = "NoIndices" THEN DrawCommandNoIndices ELSE DrawCommandIndices

NoIndicesFieldNames ==
    {DrawCommandNoIndices[k].name : k \in 1..Len(DrawCommandNoIndices)}

IndicesFieldNames ==
    {DrawCommandIndices[k].name : k \in 1..Len(DrawCommandIndices)}

FieldNames(kind) ==
    IF kind = "NoIndices" THEN NoIndicesFieldNames ELSE IndicesFieldNames

(***************************************************************************)
(* #[repr(C)] layout: every field is placed at the next offset that is a   *)
(* multiple of its alignment; the struct size is rounded up to the largest *)
(* field alignment.                                                        *)
(***************************************************************************)
AlignUp(n, a) == ((n + a - 1) \div a) * a

RECURSIVE OffsetOf(_, _)
OffsetOf(fields, k) ==
    IF k = 1 THEN 0
    ELSE AlignUp(OffsetOf(fields, k - 1) + SizeOfTy(fields[k - 1].ty),
                 AlignOfTy(fields[k].ty))

RECURSIVE MaxAlign(_, _)
MaxAlign(fields, k) ==
    IF k = 0 THEN 1
    ELSE LET m == MaxAlign(fields, k - 1)
             a == AlignOfTy(fields[k].ty)
         IN IF a > m THEN a ELSE m

SizeOf(fields) ==
    LET n == Len(fields)
    IN AlignUp(OffsetOf(fields, n) + SizeOfTy(fields[n].ty), MaxAlign(fields, n))

\* index of the field called name
FieldIndex(fields, name) == CHOOSE k \in 1..Len(fields) : fields[k].name = name

\* the layout of a struct: offset of every field, total size, and for every
\* byte of the struct the field that covers it (0 for a padding byte)
Layout(fields) ==
    [offset |-> [k \in 1..Len(fields) |-> OffsetOf(fields, k)],
     size |-> SizeOf(fields),
     field_at |-> [b \in 1..SizeOf(fields) |->
                     IF \E k \in 1..Len(fields) :
                            /\ b > OffsetOf(fields, k)
                            /\ b <= OffsetOf(fields, k) + SizeOfTy(fields[k].ty)
                     THEN CHOOSE k \in 1..Len(fields) :
                            /\ b > OffsetOf(fields, k)
                            /\ b <= OffsetOf(fields, k) + SizeOfTy(fields[k].ty)
                     ELSE 0]]

NoIndicesLayout == Layout(DrawCommandNoIndices)

IndicesLayout == Layout(DrawCommandIndices)

LayoutOf(kind) == IF kind = "NoIndices" THEN NoIndicesLayout ELSE IndicesLayout

FieldOffset(kind, name) ==
    LayoutOf(kind).offset[FieldIndex(StructOf(kind), name)]

\* size_of::<T>() of the record type of a wrapper
RecordSize(kind) == LayoutOf(kind).size

\* byte offset of record i (0-based) in an array of records
RecordStart(kind, i) == i * RecordSize(kind)

(***************************************************************************)
(* Storing a record into memory and loading it back.  A field of size s    *)
(* keeps the s low-order bytes of the value; padding bytes are zero.       *)
(***************************************************************************)
StoreRecord(kind, r) ==
    LET fields == StructOf(kind)
        layout == LayoutOf(kind)
    IN [b \in 1..layout.size |->
           LET k == layout.field_at[b]
           IN IF k = 0 THEN 0
              ELSE BytesOfU32(r[fields[k].name])[b - layout.offset[k]]]

\* the value of the size-byte little-endian field that starts at byte offset off
LoadField(bytes, off, size) ==
    LET B(j) == IF j <= size THEN bytes[off + j] ELSE 0
    IN U32(B(3) + 256 * B(4), B(1) + 256 * B(2))

LoadRecord(kind, bytes, start) ==
    LET fields == StructOf(kind)
        layout == LayoutOf(kind)
    IN [name \in FieldNames(kind) |->
           LET k == FieldIndex(fields, name)
           IN LoadField(bytes, start + layout.offset[k], SizeOfTy(fields[k].ty))]

(***************************************************************************)
(* Sample record values written by callers and found in fresh memory.      *)
(***************************************************************************)
ZeroValues == [name \in {"count", "instance_count", "first_index",
                         "base_vertex", "base_instance"} |-> U32Zero]

ScenarioValues ==
    [count |-> U32(0, 6), instance_count |-> U32(0, 2), first_index |-> U32(0, 3),
     base_vertex |-> U32(0, 1), base_instance |-> U32(0, 0)]

WideValues ==
    [count |-> U32Max, instance_count |-> U32(258, 772),
     first_index |-> U32(1286, 1800), base_vertex |-> U32(2314, 2828),
     base_instance |-> U32(32768, 1)]

RecordOf(kind, values) == [name \in FieldNames(kind) |-> values[name]]

SampleValues == {ZeroValues, ScenarioValues, WideValues}

NoIndicesSamples == {RecordOf("NoIndices", v) : v \in SampleValues}

IndicesSamples == {RecordOf("Indices", v) : v \in SampleValues}

SampleRecords(kind) ==
    IF kind = "NoIndices" THEN NoIndicesSamples ELSE IndicesSamples

(***************************************************************************)
(* The device: a heap of allocations, each holding its bytes.  The buffer  *)
(* type and the allocation mode of a request are kept in the call log.     *)
(***************************************************************************)
AllocIds == 1..MaxAllocs

Free == [live |-> FALSE, bytes |-> <<>>]

Live(h) == {id \in AllocIds : h[id] # Free}

Outcomes == {"Ok", "OutOfMemory", "BufferTypeNotSupported"}

NoView == [alloc |-> 0, size |-> 0]

\* BufferView::empty_array: one allocation request to the device.  The
\* facade carries the device's answer and the bytes found in fresh memory.
BufferView_empty_array(h, facade, ty, elements, mode, elem_size) ==
    LET request == [ty |-> ty, elements |-> elements, mode |-> mode]
        free == AllocIds \ Live(h)
    IN IF facade.outcome # "Ok" \/ free = {}
       THEN [ok |-> FALSE, view |-> NoView,
             err |-> IF facade.outcome # "Ok" THEN facade.outcome
                     ELSE "OutOfMemory",
             heap |-> h, calls |-> <<request>>]
       ELSE LET id == CHOOSE x \in free : \A y \in free : x <= y
                size == elements * elem_size
                bytes == [b \in 1..size |->
                            IF b <= Len(facade.garbage) THEN facade.garbage[b]
                            ELSE 0]
            IN [ok |-> TRUE, view |-> [alloc |-> id, size |-> size],
                err |-> "None",
                heap |-> [h EXCEPT ![id] =
                             [live |-> TRUE, bytes |-> bytes]],
                calls |-> <<request>>]

\* BufferView::len of a view of records of elem_size bytes
BufferView_len(view, elem_size) == view.size \div elem_size

\* BufferView::as_slice_any: an untyped reference to the whole view
BufferView_as_slice_any(view, elem_size) ==
    [alloc |-> view.alloc, bytes_start |-> 0, bytes_end |-> view.size,
     elements_size |-> elem_size]

\* the bytes a view refers to
ViewBytes(h, view) == h[view.alloc].bytes

\* a store of the bytes data at byte offset start of the view's allocation
BufferView_store(h, view, start, data) ==
    [h EXCEPT ![view.alloc].bytes =
        [b \in 1..Len(@) |->
            IF b > start /\ b <= start + Len(data) THEN data[b - start]
            ELSE @[b]]]

(***************************************************************************)
(* The wrapper types and their constructors.                               *)
(***************************************************************************)
NoCmd == [kind |-> "None", buffer |-> NoView]

\* try!(...) followed by Ok(DrawCommandsNoIndicesBuffer { buffer: buf })
WrapNoIndices(r) ==
    IF r.ok
    THEN [ok |-> TRUE, value |-> [kind |-> "NoIndices", buffer |-> r.view],
          err |-> "None", heap |-> r.heap, calls |-> r.calls]
    ELSE [ok |-> FALSE, value |-> NoCmd, err |-> r.err, heap |-> r.heap,
          calls |-> r.calls]

\* try!(...) followed by Ok(DrawCommandsIndicesBuffer { buffer: buf })
WrapIndices(r) ==
    IF r.ok
    THEN [ok |-> TRUE, value |-> [kind |-> "Indices", buffer |-> r.view],
          err |-> "None", heap |-> r.heap, calls |-> r.calls]
    ELSE [ok |-> FALSE, value |-> NoCmd, err |-> r.err, heap |-> r.heap,
          calls |-> r.calls]

NoIndices_empty_retry(h, facade, elements) ==
    LET first == BufferView_empty_array(h, facade, "DrawIndirectBuffer",
                     elements, "Default", RecordSize("NoIndices"))
        second == BufferView_empty_array(h, [facade EXCEPT !.outcome = "Ok"],
                     "DrawIndirectBuffer", elements, "Default",
                     RecordSize("NoIndices"))
    IN IF first.ok THEN WrapNoIndices(first)
       ELSE WrapNoIndices([second EXCEPT !.calls = first.calls \o second.calls])

NoIndices_empty(h, facade, elements) ==
    WrapNoIndices(BufferView_empty_array(h, facade, "DrawIndirectBuffer",
                      elements, "Default", RecordSize("NoIndices")))

NoIndices_empty_dynamic_default(h, facade, elements) ==
    WrapNoIndices(BufferView_empty_array(h, facade, "DrawIndirectBuffer",
                      elements, "Default", RecordSize("NoIndices")))

NoIndices_empty_dynamic(h, facade, elements) ==
    WrapNoIndices(BufferView_empty_array(h, facade, "DrawIndirectBuffer",
                      elements, "Dynamic", RecordSize("NoIndices")))

NoIndices_empty_persistent(h, facade, elements) ==
    WrapNoIndices(BufferView_empty_array(h, facade, "DrawIndirectBuffer",
                      elements, "Persistent", RecordSize("NoIndices")))

NoIndices_empty_immutable(h, facade, elements) ==
    WrapNoIndices(BufferView_empty_array(h, facade, "DrawIndirectBuffer",
                      elements, "Immutable", RecordSize("NoIndices")))

Indices_empty(h, facade, elements) ==
    WrapIndices(BufferView_empty_array(h, facade, "DrawIndirectBuffer",
                    elements, "Default", RecordSize("Indices")))

Indices_empty_dynamic(h, facade, elements) ==
    WrapIndices(BufferView_empty_array(h, facade, "DrawIndirectBuffer",
                    elements, "Dynamic", RecordSize("Indices")))

Indices_empty_persistent_more(h, facade, elements) ==
    WrapIndices(BufferView_empty_array(h, facade, "DrawIndirectBuffer",
                    elements + 1, "Persistent", RecordSize("Indices")))

Indices_empty_persistent(h, facade, elements) ==
    WrapIndices(BufferView_empty_array(h, facade, "DrawIndirectBuffer",
                    elements, "Persistent", RecordSize("Indices")))

Indices_empty_immutable(h, facade, elements) ==
    WrapIndices(BufferView_empty_array(h, facade, "DrawIndirectBuffer",
                    elements, "Immutable", RecordSize("Indices")))

Ctors == {"empty", "empty_dynamic", "empty_persistent", "empty_immutable"}

\* the call of the constructor named ctor of the wrapper type kind
Construct(kind, ctor, h, facade, elements) ==
    IF kind = "NoIndices"
    THEN CASE ctor = "empty" -> NoIndices_empty(h, facade, elements)
           [] ctor = "empty_dynamic" -> NoIndices_empty_dynamic(h, facade, elements)
           [] ctor = "empty_persistent" ->
                  NoIndices_empty_persistent(h, facade, elements)
           [] OTHER -> NoIndices_empty_immutable(h, facade, elements)
    ELSE CASE ctor = "empty" -> Indices_empty(h, facade, elements)
           [] ctor = "empty_dynamic" -> Indices_empty_dynamic(h, facade, elements)
           [] ctor = "empty_persistent" ->
                  Indices_empty_persistent(h, facade, elements)
           [] OTHER -> Indices_empty_immutable(h, facade, elements)

(***************************************************************************)
(* Deref / DerefMut: the wrapper hands out its owned view.                 *)
(***************************************************************************)
NoIndices_deref(self) == self.buffer

NoIndices_deref_mut_shrunk(self) ==
    [self.buffer EXCEPT !.size = IF @ >= RecordSize("NoIndices")
                                 THEN @ - RecordSize("NoIndices") ELSE @]

NoIndices_deref_mut(self) == self.buffer

Indices_deref(self) == self.buffer

Indices_deref_mut(self) == self.buffer

deref(self) ==
    IF self.kind = "NoIndices" THEN NoIndices_deref(self) ELSE Indices_deref(self)

deref_mut(self) ==
    IF self.kind = "NoIndices" THEN NoIndices_deref_mut(self)
    ELSE Indices_deref_mut(self)

\* element count of a command buffer, asked through Deref
ElementCount(self) == BufferView_len(deref(self), RecordSize(self.kind))

\* record i (0-based) of a command buffer, read through Deref
ReadRecord(h, self, i) ==
    LoadRecord(self.kind, ViewBytes(h, deref(self)), RecordStart(self.kind, i))

\* all records of a command buffer
ReadAll(h, self) == [j \in 1..ElementCount(self) |-> ReadRecord(h, self, j - 1)]

(***************************************************************************)
(* The external index buffer.                                              *)
(***************************************************************************)
IndexTypes == {"U16", "U32"}

PrimitiveTypes == {"Points", "TrianglesList"}

IndexSize(data_type) ==
    CASE data_type = "U8" -> 1 [] data_type = "U16" -> 2 [] OTHER -> 4

IndexSamples == {<<0, 1, 2>>, <<2, 1, 0>>}

NoIbuf == [data_type |-> "None", primitives |-> "None", buffer |-> NoView]

\* the bytes of an array of small indices, each stored in size bytes
IndexBytes(data, size) ==
    [b \in 1..(Len(data) * size) |->
        IF (b - 1) % size = 0 THEN data[((b - 1) \div size) + 1] ELSE 0]

IndexBuffer_get_indices_type(index_buffer) == index_buffer.data_type

IndexBuffer_get_primitives_type(index_buffer) == index_buffer.primitives

(***************************************************************************)
(* Indices sources.  The field lifetime names the borrows the returned     *)
(* value holds: the references its lifetime parameter is tied to.          *)
(***************************************************************************)
NoSource == [variant |-> "None", lifetime |-> {}]

with_primitive_type_fixed(self, primitives) ==
    [variant |-> "MultidrawArray",
     buffer |-> BufferView_as_slice_any(self.buffer, RecordSize("NoIndices")),
     primitives |-> "TrianglesList",
     lifetime |-> {"self"}]

with_primitive_type_checked(self, primitives) ==
    IF \/ BufferView_len(self.buffer, RecordSize("NoIndices")) = 0
       \/ \E i \in 0..(BufferView_len(self.buffer,
                                      RecordSize("NoIndices")) - 1) :
              ReadRecord(heap, self, i).instance_count = U32Zero
    THEN [variant |-> "Error", lifetime |-> {}]
    ELSE [variant |-> "MultidrawArray",
          buffer |-> BufferView_as_slice_any(self.buffer,
                                             RecordSize("NoIndices")),
          primitives |-> primitives,
          lifetime |-> {"self"}]

with_primitive_type(self, primitives) ==
    [variant |-> "MultidrawArray",
     buffer |-> BufferView_as_slice_any(self.buffer, RecordSize("NoIndices")),
     primitives |-> primitives,
     lifetime |-> {"self"}]

with_index_buffer_fixed(self, index_buffer) ==
    [variant |-> "MultidrawElement",
     commands |-> BufferView_as_slice_any(self.buffer, RecordSize("Indices")),
     indices |-> BufferView_as_slice_any(index_buffer.buffer,
                                         IndexSize(index_buffer.data_type)),
     data_type |-> "U16",
     primitives |-> "TrianglesList",
     lifetime |-> {"self", "index_buffer"}]

with_index_buffer_unbound(self, index_buffer) ==
    [variant |-> "MultidrawElement",
     commands |-> BufferView_as_slice_any(self.buffer, RecordSize("Indices")),
     indices |-> BufferView_as_slice_any(index_buffer.buffer,
                                         IndexSize(index_buffer.data_type)),
     data_type |-> IndexBuffer_get_indices_type(index_buffer),
     primitives |-> IndexBuffer_get_primitives_type(index_buffer),
     lifetime |-> {"self"}]

with_index_buffer(self, index_buffer) ==
    [variant |-> "MultidrawElement",
     commands |-> BufferView_as_slice_any(self.buffer, RecordSize("Indices")),
     indices |-> BufferView_as_slice_any(index_buffer.buffer,
                                         IndexSize(index_buffer.data_type)),
     data_type |-> IndexBuffer_get_indices_type(index_buffer),
     primitives |-> IndexBuffer_get_primitives_type(index_buffer),
     lifetime |-> {"self", "index_buffer"}]

\* the references an existing indices source keeps borrowed
Borrowed == source.lifetime

NoSnap == [cmd |-> <<>>, ibuf |-> <<>>]

(***************************************************************************)
(* Initial state: nothing has been created.                                *)
(***************************************************************************)
Init ==
    /\ heap = [id \in AllocIds |-> Free]
    /\ cmd = NoCmd
    /\ ibuf = NoIbuf
    /\ source = NoSource
    /\ snap = NoSnap
    /\ last = [op |-> "init"]

\* the bytes of the records init laid out as an array
Garbage(kind, init) ==
    LET stored == [k \in 1..Len(init) |-> StoreRecord(kind, init[k])]
    IN [b \in 1..(Len(init) * RecordSize(kind)) |->
           stored[((b - 1) \div RecordSize(kind)) + 1]
                 [((b - 1) % RecordSize(kind)) + 1]]

(***************************************************************************)
(* A caller calls one of the eight constructors.  The device answers with  *)
(* outcome; fresh memory holds the records init.                           *)
(***************************************************************************)
Create(kind, ctor, elements, outcome, init) ==
    /\ cmd = NoCmd
    /\ \E facade \in {[outcome |-> outcome, garbage |-> Garbage(kind, init)]} :
       \E r \in {Construct(kind, ctor, heap, facade, elements)} :
          /\ heap' = r.heap
          /\ cmd' = IF r.ok THEN r.value ELSE cmd
          /\ last' = [op |-> "create", kind |-> kind, ctor |-> ctor,
                      elements |-> elements, outcome |-> outcome,
                      ok |-> r.ok, err |-> r.err, value |-> r.value,
                      calls |-> r.calls, live_before |-> Live(heap)]
    /\ UNCHANGED <<ibuf, source, snap>>

\* The owner releases the command buffer; the owned view frees its allocation.
\* Moving the wrapper out of its owner needs that nothing borrows it.
DropCmd ==
    /\ cmd # NoCmd
    /\ "self" \notin Borrowed
    /\ heap' = [heap EXCEPT ![cmd.buffer.alloc] = Free]
    /\ cmd' = NoCmd
    /\ last' = [op |-> "drop"]
    /\ UNCHANGED <<ibuf, source, snap>>

\* A caller stores record r at position i through deref_mut (&mut self: no
\* other borrow of the wrapper may exist).
MapWrite(i, r) ==
    /\ cmd # NoCmd
    /\ "self" \notin Borrowed
    /\ \E view \in {deref_mut(cmd)}, data \in {StoreRecord(cmd.kind, r)} :
          /\ i < BufferView_len(view, RecordSize(cmd.kind))
          /\ heap' = BufferView_store(heap, view, RecordStart(cmd.kind, i), data)
          /\ cmd' = [cmd EXCEPT !.buffer = view]
    /\ last' = [op |-> "write", i |-> i, r |-> r]
    /\ UNCHANGED <<ibuf, source, snap>>

\* Caller code: the owned view is replaced through the &mut BufferView that
\* deref_mut returns, *buffer.deref_mut() = BufferView::empty_array(..).unwrap().
\* deref_mut itself only hands out the view; the allocation of the new view
\* (any buffer type and mode, any element count) and the drop of the old one,
\* which frees its allocation, are the caller's and BufferView's.  (With
\* mem::swap or mem::replace the old view would stay alive in the caller's
\* hands; the model keeps no such second view.)
AssignView(ty, mode, elements, init) ==
    /\ cmd # NoCmd
    /\ "self" \notin Borrowed
    /\ \E facade \in {[outcome |-> "Ok", garbage |-> Garbage(cmd.kind, init)]} :
       \E r \in {BufferView_empty_array(heap, facade, ty, elements, mode,
                                         RecordSize(cmd.kind))} :
       \E old \in {deref_mut(cmd)} :
          /\ r.ok
          /\ heap' = [r.heap EXCEPT ![old.alloc] = Free]
          /\ cmd' = [cmd EXCEPT !.buffer = r.view]
          /\ last' = [op |-> "assign_view"]
    /\ UNCHANGED <<ibuf, source, snap>>

\* A caller reads record i through deref (&self).
Read(i) ==
    /\ cmd # NoCmd
    /\ i < ElementCount(cmd)
    /\ last' = [op |-> "read", value |-> ReadRecord(heap, cmd, i)]
    /\ UNCHANGED <<heap, cmd, ibuf, source, snap>>

\* what the buffers an indices source refers to hold when it is built
Snapshot(src) ==
    IF src.variant = "MultidrawArray"
    THEN [cmd |-> heap[src.buffer.alloc].bytes, ibuf |-> <<>>]
    ELSE IF src.variant = "MultidrawElement"
    THEN [cmd |-> heap[src.commands.alloc].bytes,
          ibuf |-> heap[src.indices.alloc].bytes]
    ELSE NoSnap

WithPrimitiveType(primitives) ==
    /\ cmd.kind = "NoIndices"
    /\ source = NoSource
    /\ source' = with_primitive_type(cmd, primitives)
    /\ snap' = Snapshot(source')
    /\ last' = [op |-> "with_primitive_type", primitives |-> primitives]
    /\ UNCHANGED <<heap, cmd, ibuf>>

WithIndexBuffer ==
    /\ cmd.kind = "Indices"
    /\ ibuf # NoIbuf
    /\ source = NoSource
    /\ source' = with_index_buffer(cmd, ibuf)
    /\ snap' = Snapshot(source')
    /\ last' = [op |-> "with_index_buffer"]
    /\ UNCHANGED <<heap, cmd, ibuf>>

\* The indices source goes out of scope (the draw call that used it is over).
ReleaseSource ==
    /\ source # NoSource
    /\ source' = NoSource
    /\ snap' = NoSnap
    /\ last' = [op |-> "release"]
    /\ UNCHANGED <<heap, cmd, ibuf>>

\* The caller builds an index buffer holding data.
CreateIndexBuffer(data_type, primitives, data) ==
    /\ ibuf = NoIbuf
    /\ AllocIds \ Live(heap) # {}
    /\ \E facade \in {[outcome |-> "Ok",
                        garbage |-> IndexBytes(data, IndexSize(data_type))]} :
       \E r \in {BufferView_empty_array(heap, facade, "ElementArrayBuffer",
                       Len(data), "Default", IndexSize(data_type))} :
          /\ heap' = r.heap
          /\ ibuf' = [data_type |-> data_type, primitives |-> primitives,
                      buffer |-> r.view]
    /\ last' = [op |-> "create_index_buffer"]
    /\ UNCHANGED <<cmd, source, snap>>

\* The caller overwrites the index data (a mutable borrow of the index buffer).
WriteIndexBuffer(data) ==
    /\ ibuf # NoIbuf
    /\ "index_buffer" \notin Borrowed
    /\ \E bytes \in {IndexBytes(data, IndexSize(ibuf.data_type))} :
          heap' = BufferView_store(heap, ibuf.buffer, 0, bytes)
    /\ heap' # heap
    /\ last' = [op |-> "write_index_buffer"]
    /\ UNCHANGED <<cmd, ibuf, source, snap>>

\* The caller releases the index buffer.
DropIndexBuffer ==
    /\ ibuf # NoIbuf
    /\ "index_buffer" \notin Borrowed
    /\ heap' = [heap EXCEPT ![ibuf.buffer.alloc] = Free]
    /\ ibuf' = NoIbuf
    /\ last' = [op |-> "drop_index_buffer"]
    /\ UNCHANGED <<cmd, source, snap>>

Next ==
    \/ \E kind \in Kinds, ctor \in Ctors, elements \in 0..MaxElements,
          outcome \in Outcomes :
          \E fill \in IF outcome = "Ok" THEN SampleRecords(kind)
                       ELSE {RecordOf(kind, ZeroValues)} :
              Create(kind, ctor, elements, outcome, [k \in 1..elements |-> fill])
    \/ DropCmd
    \/ \E i \in 0..(MaxElements - 1) :
          \E r \in SampleRecords(cmd.kind) : MapWrite(i, r)
    \/ \E ty \in {"ArrayBuffer"}, mode \in {"Dynamic"},
          elements \in 0..MaxElements :
          \E fill \in SampleRecords(cmd.kind) :
              AssignView(ty, mode, elements, [k \in 1..elements |-> fill])
    \/ \E i \in 0..(MaxElements - 1) : Read(i)
    \/ \E primitives \in PrimitiveTypes : WithPrimitiveType(primitives)
    \/ WithIndexBuffer
    \/ ReleaseSource
    \/ \E data_type \in IndexTypes, primitives \in PrimitiveTypes,
          data \in IndexSamples : CreateIndexBuffer(data_type, primitives, data)
    \/ \E data \in IndexSamples : WriteIndexBuffer(data)
    \/ DropIndexBuffer

Spec == Init /\ [][Next]_vars

(***************************************************************************)
(* Properties.                                                             *)
(***************************************************************************)

\* C1: each of the eight constructors, called with element count n, returns
\* either a buffer of its own type whose element count is exactly n or a
\* BufferCreationError; never a buffer with another element count.
C1_ExactCountOrError ==
    last.op = "create" =>
        \/ /\ last.ok
           /\ last.value.kind = last.kind
           /\ ElementCount(last.value) = last.elements
           /\ cmd = last.value
           /\ ElementCount(cmd) = last.elements
        \/ /\ ~last.ok
           /\ last.err \in Outcomes \ {"Ok"}
           /\ last.value = NoCmd

C1_Witness ==
    /\ last.op = "create"
    /\ last.ok
    /\ last.kind = "Indices"
    /\ last.ctor = "empty_persistent"
    /\ last.elements = MaxElements
    /\ ElementCount(cmd) = MaxElements

\* C2: creation is all-or-nothing.  When the allocation fails the constructor
\* returns that very error, no wrapper exists, the set of live allocations is
\* what it was and exactly one allocation attempt was made; when it succeeds
\* the wrapper owns one new live allocation holding all its records.
C2_AllOrNothing ==
    last.op = "create" =>
        IF last.outcome # "Ok"
        THEN /\ ~last.ok
             /\ last.err = last.outcome
             /\ cmd = NoCmd
             /\ Live(heap) = last.live_before
             /\ Len(last.calls) = 1
        ELSE /\ last.ok
             /\ last.err = "None"
             /\ cmd = last.value
             /\ Live(heap) = last.live_before \cup {cmd.buffer.alloc}
             /\ cmd.buffer.alloc \notin last.live_before
             /\ Len(ViewBytes(heap, deref(cmd))) =
                    last.elements * RecordSize(last.kind)
             /\ \A i \in 0..(last.elements - 1) :
                    ReadRecord(heap, cmd, i) \in SampleRecords(last.kind)
             /\ Len(last.calls) = 1

C2_Witness ==
    /\ last.op = "create"
    /\ last.kind = "NoIndices"
    /\ last.ctor = "empty"
    /\ last.outcome = "OutOfMemory"
    /\ ~last.ok
    /\ cmd = NoCmd
    /\ ibuf # NoIbuf
    /\ Live(heap) = {ibuf.buffer.alloc}

\* C3: with_primitive_type(T) on a non-indexed buffer yields the variant
\* MultidrawArray tagged with exactly T, referring (by allocation, not by
\* copy) to the whole record array of the buffer, with no index data.
C3_MultidrawArray ==
    last.op = "with_primitive_type" =>
        /\ source.variant = "MultidrawArray"
        /\ source.primitives = last.primitives
        /\ source.buffer.alloc = cmd.buffer.alloc
        /\ source.buffer.bytes_start = 0
        /\ source.buffer.bytes_end = ElementCount(cmd) * 16
        /\ source.buffer.bytes_end = Len(heap[cmd.buffer.alloc].bytes)
        /\ source.buffer.elements_size = 16
        /\ DOMAIN source = {"variant", "buffer", "primitives", "lifetime"}

C3_Witness ==
    /\ last.op = "with_primitive_type"
    /\ last.primitives = "Points"
    /\ source.primitives = "Points"
    /\ ElementCount(cmd) = MaxElements

\* C4: with_index_buffer on an indexed buffer yields the variant
\* MultidrawElement whose data_type and primitives are those of the index
\* buffer and which refers to the whole command array and the whole index
\* array.
C4_MultidrawElement ==
    last.op = "with_index_buffer" =>
        /\ source.variant = "MultidrawElement"
        /\ source.data_type = ibuf.data_type
        /\ source.primitives = ibuf.primitives
        /\ source.commands.alloc = cmd.buffer.alloc
        /\ source.commands.bytes_start = 0
        /\ source.commands.bytes_end = ElementCount(cmd) * 20
        /\ source.commands.bytes_end = Len(heap[cmd.buffer.alloc].bytes)
        /\ source.commands.elements_size = 20
        /\ source.indices.alloc = ibuf.buffer.alloc
        /\ source.indices.alloc # source.commands.alloc
        /\ source.indices.bytes_start = 0
        /\ source.indices.bytes_end = Len(heap[ibuf.buffer.alloc].bytes)
        /\ source.indices.elements_size = IndexSize(ibuf.data_type)

C4_Witness ==
    /\ last.op = "with_index_buffer"
    /\ source.data_type = "U32"
    /\ source.primitives = "Points"
    /\ ElementCount(cmd) = 1

\* C5: while an indices source exists, the command buffer it was built from
\* (and, for the indexed variant, the index buffer) is alive and holds the
\* bytes it held when the source was built.
C5_BorrowedBuffersUnchanged ==
    source # NoSource =>
        /\ cmd # NoCmd
        /\ LET commands == IF source.variant = "MultidrawArray"
                           THEN source.buffer ELSE source.commands
           IN /\ commands.alloc = cmd.buffer.alloc
              /\ heap[commands.alloc].live
              /\ heap[commands.alloc].bytes = snap.cmd
        /\ source.variant = "MultidrawElement" =>
              /\ ibuf # NoIbuf
              /\ source.indices.alloc = ibuf.buffer.alloc
              /\ heap[source.indices.alloc].live
              /\ heap[source.indices.alloc].bytes = snap.ibuf

C5_Witness ==
    /\ source.variant = "MultidrawElement"
    /\ last.op = "read"
    /\ ElementCount(cmd) = MaxElements

\* C6: the element count of a command buffer created with n elements stays n
\* under every record read, record write and indices-source construction (and
\* every other step taken while the buffer exists).  A replacement of the whole
\* owned view by the caller, through the &mut BufferView that deref_mut returns,
\* is not one of these operations and is left out.
C6_ElementCountFixed ==
    [][(cmd # NoCmd /\ cmd' # NoCmd /\ last'.op # "assign_view")
           => ElementCount(cmd') = ElementCount(cmd)]_vars

C6_Witness ==
    /\ last.op = "write"
    /\ last.i = MaxElements - 1
    /\ ElementCount(cmd) = MaxElements
    /\ cmd.kind = "NoIndices"

ExpectedOffsets ==
    [NoIndices |-> [count |-> 0, instance_count |-> 4, first_index |-> 8,
                    base_instance |-> 12],
     Indices |-> [count |-> 0, instance_count |-> 4, first_index |-> 8,
                  base_vertex |-> 12, base_instance |-> 16]]

ExpectedSize == [NoIndices |-> 16, Indices |-> 20]

\* C7: the record layouts are bit-exact: 16 bytes with fields at 0, 4, 8, 12
\* and 20 bytes with fields at 0, 4, 8, 12, 16; every field is 4 bytes wide,
\* no byte of a record is padding, record i of a buffer starts at byte i*16
\* (i*20), and the bytes found there are those of the record's fields.
C7_BitExactLayout ==
    /\ \A kind \in Kinds :
          /\ RecordSize(kind) = ExpectedSize[kind]
          /\ FieldNames(kind) = DOMAIN ExpectedOffsets[kind]
          /\ Len(StructOf(kind)) = Cardinality(DOMAIN ExpectedOffsets[kind])
          /\ \A name \in FieldNames(kind) :
                FieldOffset(kind, name) = ExpectedOffsets[kind][name]
          /\ \A k \in 1..Len(StructOf(kind)) : SizeOfTy(StructOf(kind)[k].ty) = 4
          /\ \A b \in 1..RecordSize(kind) : LayoutOf(kind).field_at[b] # 0
    /\ cmd # NoCmd =>
          \A i \in 0..(ElementCount(cmd) - 1) :
             /\ RecordStart(cmd.kind, i) = i * ExpectedSize[cmd.kind]
             /\ \A name \in DOMAIN ExpectedOffsets[cmd.kind] :
                   LoadField(heap[cmd.buffer.alloc].bytes,
                             i * ExpectedSize[cmd.kind]
                                 + ExpectedOffsets[cmd.kind][name], 4)
                       = ReadRecord(heap, cmd, i)[name]
    /\ last.op = "write" =>
          \A name \in DOMAIN ExpectedOffsets[cmd.kind] :
             \A j \in 1..4 :
                heap[cmd.buffer.alloc].bytes[last.i * ExpectedSize[cmd.kind]
                                             + ExpectedOffsets[cmd.kind][name] + j]
                    = BytesOfU32(last.r[name])[j]

C7_Witness ==
    /\ last.op = "write"
    /\ cmd.kind = "Indices"
    /\ last.i = 1
    /\ last.r = RecordOf("Indices", WideValues)

\* C8: a record written at position i through deref_mut is read back through
\* deref equal in every field, and every other position keeps its record.
C8_WriteReadRoundTrip ==
    [][last'.op = "write" =>
          /\ ReadRecord(heap', cmd', last'.i) = last'.r
          /\ \A j \in 0..(ElementCount(cmd) - 1) :
                j # last'.i => ReadRecord(heap', cmd', j) = ReadRecord(heap, cmd, j)]_vars

C8_Witness ==
    /\ last.op = "write"
    /\ last.i = 0
    /\ last.r.count = U32Max
    /\ ElementCount(cmd) = MaxElements
    /\ ReadRecord(heap, cmd, 0) = last.r
    /\ ReadRecord(heap, cmd, 1) # last.r

\* C9: once a buffer exists, with_primitive_type and with_index_buffer are
\* applicable whatever its element count and records, and what they return
\* is an indices source, never an error.
C9_SourceConstructionInfallible ==
    /\ last.op \in {"with_primitive_type", "with_index_buffer"} =>
          source.variant \in {"MultidrawArray", "MultidrawElement"}
    /\ (cmd.kind = "NoIndices" /\ source = NoSource) =>
          \A primitives \in PrimitiveTypes : ENABLED WithPrimitiveType(primitives)
    /\ (cmd.kind = "Indices" /\ ibuf # NoIbuf /\ source = NoSource) =>
          ENABLED WithIndexBuffer

C9_Witness ==
    /\ last.op = "with_primitive_type"
    /\ ElementCount(cmd) = 0
    /\ source.variant = "MultidrawArray"

ExpectedMode ==
    [empty |-> "Default", empty_dynamic |-> "Dynamic",
     empty_persistent |-> "Persistent", empty_immutable |-> "Immutable"]

\* C10: for both buffer types the constructors empty, empty_dynamic,
\* empty_persistent, empty_immutable request the modes Default, Dynamic,
\* Persistent, Immutable, which are pairwise distinct, with buffer type
\* DrawIndirectBuffer and the caller's element count unmodified.
C10_RequestedModes ==
    /\ \A c1, c2 \in Ctors : c1 # c2 => ExpectedMode[c1] # ExpectedMode[c2]
    /\ last.op = "create" =>
          last.calls = << [ty |-> "DrawIndirectBuffer",
                           elements |-> last.elements,
                           mode |-> ExpectedMode[last.ctor]] >>

C10_Witness ==
    /\ last.op = "create"
    /\ last.kind = "NoIndices"
    /\ last.ctor = "empty_dynamic"
    /\ last.elements = 1
    /\ last.calls[1].mode = "Dynamic"

====
